---- MODULE Spec2Model ----
(***************************************************************************)
(* Model of the link/article harvesting engine of Engineering-Geek/Scraper *)
(*                                                                         *)
(*   SpecBatchify : src/src/articles/scraper.py  _batchify                 *)
(*   SpecScrape   : src/scrapers/links/async_link_scraper.py               *)
(*                  AsyncLinkScraper._fetch / _fetch_and_parse /           *)
(*                  raw_data / scrape                                      *)
(*   SpecRun      : AsyncLinkScraper.run and the legacy                    *)
(*                  LinkScraper.__call__ (scrapers/links/link_scraper.py)  *)
(*   SpecArticles : NewsArticle (src/news_article.py) and _scrape_batch /  *)
(*                  article_scraper, persisting through utils/S3.py        *)
(*   SpecS3       : S3Bucket (src/S3.py)                                   *)
(*   SpecGoogle   : GoogleNewsLinkScraper._get_news_articles               *)
(*                  (src/google.py)                                        *)
(***************************************************************************)
EXTENDS Integers, Sequences, FiniteSets, TLC

(***************************************************************************)
(* Bounds of the explored inputs.                                          *)
(***************************************************************************)
MaxArticles == 5
MaxBatch == 3
MaxWindows == 2
MaxPages == 2
MaxDays == 15
MaxItems == 2
MaxRows == 2
MaxQueries == 2
MaxFound == 2

Domains == {"a", "b", "c"}

VARIABLES
    \* ---- _batchify (src/src/articles/scraper.py) ----
    articles,        \* the argument: a list of NewsArticle (id, domain)
    max_batch,       \* the argument / local max_batch; 0 stands for None
    dynamic,         \* local `dynamic`
    hashtable,       \* keys of the dict `hashtable`, in insertion order
    hashtable_temp,  \* keys of the dict `hashtable_temp`, in insertion order
    lists,           \* the list objects the two dicts share: domain -> list
    idx,             \* position of the for loop in hashtable.keys()
    current_batch,   \* local `current_batch`
    batches,         \* local `batches`
    bpc,             \* control point of _batchify
    round_log,       \* per round of the while loop: the domains that were
                     \* keys of hashtable when it began, those it took from
    first,           \* what an earlier fixed-mode call on the same articles
                     \* returned, and in how many rounds
    \* ---- AsyncLinkScraper (src/scrapers/links/async_link_scraper.py) ----
    num_pages,       \* self.num_pages
    date_range,      \* the argument of scrape: list of (start, end)
    win,             \* index of the window the for loop of scrape is at
    tasks,           \* the _fetch_and_parse coroutines alive: <<w, p>> -> record
    n_tasks,         \* len(tasks) of the raw_data call being awaited
    rows,            \* local `rows` of scrape
    spc,             \* control point of scrape
    overtaken,       \* the windows in which a page finished before a page of
                     \* lower index
    \* ---- run / LinkScraper.__call__ ----
    r_impl,          \* which implementation runs: "async" or "legacy"
    r_method,        \* the argument method
    r_start,         \* the argument start_date (a day number)
    r_end,           \* the argument end_date (a day number)
    r_date_range,    \* local `date_range`
    r_w,             \* legacy scrape: index of the window being fetched
    r_rows,          \* legacy scrape: local `rows` (the windows that got a row)
    r_fetches,       \* number of fetches issued so far
    r_uploads,       \* number of put_object calls issued so far
    r_result,        \* what the call handed to its caller
    r_pc,            \* control point of run
    \* ---- NewsArticle / _scrape_batch / article_scraper ----
    a_arts,          \* the NewsArticle objects, by url
    a_call,          \* the last stage call made on an article and its result
    a_tried,         \* per article, the stages _scrape_batch took it through
    a_batches,       \* local `batches` (each batch a list of urls)
    a_save_path,     \* whether save_path is given
    a_s3_path,       \* whether s3_path is given
    a_s3_name,       \* whether s3_name is given
    a_b,             \* index of the batch being scraped
    a_i,             \* index, in the batch, of the next article of the stage
    a_slept,         \* number of delays article_scraper has waited
    a_results,       \* local `results`, flattened
    a_table,         \* local `df`
    a_fault,         \* where an exception left article_scraper, if any
    a_result,        \* what article_scraper handed to its caller
    a_pc,            \* control point of article_scraper
    \* ---- S3Bucket ----
    t_bucket,        \* the S3Bucket object: not constructed, constructed, or
                     \* its constructor raised
    t_store,         \* what the bucket holds under the key
    t_df,            \* the table last written under the key
    t_got,           \* the table get_dataframe returned since the last write
    t_op,            \* the last operation, the client's outcome, the result
    \* ---- GoogleNewsLinkScraper._get_news_articles ----
    g_queries,       \* the argument queries
    g_pages,         \* the argument pages
    g_at,            \* the search the loops are at: query number (0 when the
                     \* loops are over), day number, page
    g_articles,      \* local `articles`
    g_pc             \* control point of _get_news_articles

bvars == <<articles, max_batch, dynamic, hashtable, hashtable_temp, lists,
           idx, current_batch, batches, bpc, round_log, first>>
svars == <<num_pages, date_range, win, tasks, n_tasks, rows, spc, overtaken>>
rvars == <<r_impl, r_method, r_start, r_end, r_date_range, r_w, r_rows,
           r_fetches, r_uploads, r_result, r_pc>>
avars == <<a_arts, a_call, a_tried, a_batches, a_save_path, a_s3_path, a_s3_name,
           a_b, a_i, a_slept, a_results, a_table, a_fault, a_result, a_pc>>
tvars == <<t_bucket, t_store, t_df, t_got, t_op>>
gvars == <<g_queries, g_pages, g_at, g_articles, g_pc>>
vars == <<bvars, svars, rvars, avars, tvars, gvars>>

\* the variables that are not those of one component
notB == <<svars, rvars, avars, tvars, gvars>>
notS == <<bvars, rvars, avars, tvars, gvars>>
notR == <<bvars, svars, avars, tvars, gvars>>
notA == <<bvars, svars, rvars, tvars, gvars>>
notT == <<bvars, svars, rvars, avars, gvars>>
notG == <<bvars, svars, rvars, avars, tvars>>

(***************************************************************************)
(* Sequence helpers.                                                       *)
(***************************************************************************)
RECURSIVE Flatten(_)
Flatten(ss) == IF ss = <<>> THEN <<>> ELSE Head(ss) \o Flatten(Tail(ss))

Range(s) == {s[i] : i \in 1..Len(s)}

SeqsUpTo(S, n) == UNION {[1..k -> S] : k \in 0..n}

RemoveKey(keys, k) == SelectSeq(keys, LAMBDA x : x # k)

(***************************************************************************)
(* _batchify                                                               *)
(***************************************************************************)
\* A NewsArticle as far as _batchify reads it: its identity and its domain.
NewsArticle(i, d) == [id |-> i, domain |-> d]

ArticleLists ==
    {[i \in 1..Len(ds) |-> NewsArticle(i, ds[i])] : ds \in SeqsUpTo(Domains, MaxArticles)}

\* lines 32-35: the keys in first-seen order ...
RECURSIVE GroupKeys(_)
GroupKeys(arts) ==
    IF arts = <<>> THEN <<>>
    ELSE LET rest == GroupKeys(SubSeq(arts, 1, Len(arts) - 1))
             d == arts[Len(arts)].domain
         IN  IF d \in Range(rest) THEN rest ELSE Append(rest, d)

\* ... and per key the articles of that domain in arrival order.
GroupListsOverwrite(arts) ==
    [d \in Domains |->
        LET l == SelectSeq(arts, LAMBDA a : a.domain = d)
        IN  IF l = <<>> THEN <<>> ELSE <<l[Len(l)]>>]

GroupLists(arts) ==
    [d \in Domains |-> SelectSeq(arts, LAMBDA a : a.domain = d)]

\* line 41: dynamic = not bool(max_batch)   (None and 0 are falsy)
IsDynamic(m) == m = 0

RoundMaxBatchOne(dyn, keys, m) == IF dyn THEN 1 ELSE m

\* line 46
RoundMaxBatch(dyn, keys, m) == IF dyn THEN Len(keys) ELSE m

PopLast(l) == SubSeq(l, 1, Len(l) - 1)

\* line 52: list.pop(0)
PopFirst(l) == Tail(l)

\* lines 58-60 and 64: batches.append(current_batch)
FlushBatch(bs, cb) == Append(bs, cb)

BatchOverfull(cb, m) == Len(cb) > m

\* line 58
BatchFull(cb, m) == Len(cb) >= m

\* no earlier call
NoFirst == [called |-> FALSE, max_batch |-> 0, batches |-> <<>>, rounds |-> 0]

BInit ==
    /\ articles \in ArticleLists
    /\ max_batch \in 0..MaxBatch
    /\ dynamic = FALSE
    /\ hashtable = <<>>
    /\ hashtable_temp = <<>>
    /\ lists = [d \in Domains |-> <<>>]
    /\ idx = 0
    /\ current_batch = <<>>
    /\ batches = <<>>
    /\ bpc = "start"
    /\ round_log = <<>>
    /\ first = NoFirst

\* lines 31-41
BatchifyGroup ==
    /\ bpc = "start"
    /\ hashtable' = GroupKeys(articles)
    /\ lists' = GroupLists(articles)
    /\ batches' = <<>>
    /\ current_batch' = <<>>
    /\ dynamic' = IsDynamic(max_batch)
    /\ bpc' = "while"
    /\ UNCHANGED <<articles, max_batch, hashtable_temp, idx, round_log, first>>
    /\ UNCHANGED notB

\* lines 43-46: a round begins
BatchifyRound ==
    /\ bpc = "while"
    /\ hashtable_temp' = hashtable
    /\ max_batch' = RoundMaxBatch(dynamic, hashtable, max_batch)
    /\ idx' = 1
    /\ bpc' = "for"
    /\ round_log' = Append(round_log, [live |-> Range(hashtable), took |-> {}])
    /\ UNCHANGED <<articles, dynamic, hashtable, lists, current_batch, batches,
                   first>>
    /\ UNCHANGED notB

\* lines 47-61: one iteration of the for loop
BatchifyTake ==
    /\ bpc = "for"
    /\ idx <= Len(hashtable)
    /\ LET domain == hashtable[idx]
           cb == Append(current_batch, Head(lists[domain]))
           popped == PopFirst(lists[domain])
       IN  /\ lists' = [lists EXCEPT ![domain] = popped]
           /\ hashtable_temp' = IF Len(popped) = 0
                                THEN RemoveKey(hashtable_temp, domain)
                                ELSE hashtable_temp
           /\ round_log' = [round_log EXCEPT ![Len(round_log)].took = @ \cup {domain}]
           /\ IF BatchFull(cb, max_batch)
              THEN /\ batches' = FlushBatch(batches, cb)
                   /\ current_batch' = <<>>
                   /\ bpc' = "endround"
                   /\ idx' = idx
              ELSE /\ batches' = batches
                   /\ current_batch' = cb
                   /\ bpc' = "for"
                   /\ idx' = idx + 1
    /\ UNCHANGED <<articles, max_batch, dynamic, hashtable, first>>
    /\ UNCHANGED notB

\* line 47: the for loop runs out of keys
BatchifyForEnd ==
    /\ bpc = "for"
    /\ idx > Len(hashtable)
    /\ bpc' = "endround"
    /\ UNCHANGED <<articles, max_batch, dynamic, hashtable, hashtable_temp,
                   lists, idx, current_batch, batches, round_log, first>>
    /\ UNCHANGED notB

\* lines 62-67
BatchifyEndRound ==
    /\ bpc = "endround"
    /\ hashtable' = hashtable_temp
    /\ IF Len(hashtable_temp) = 0
       THEN /\ batches' = FlushBatch(batches, current_batch)
            /\ bpc' = "done"
       ELSE /\ batches' = batches
            /\ bpc' = "while"
    /\ UNCHANGED <<articles, max_batch, dynamic, hashtable_temp, lists, idx,
                   current_batch, round_log, first>>
    /\ UNCHANGED notB

\* the caller of a fixed-mode _batchify(articles, m) that has returned calls
\* _batchify(articles) on the same list, in dynamic mode
BatchifyAgain ==
    /\ bpc = "done"
    /\ ~dynamic
    /\ ~first.called
    /\ first' = [called |-> TRUE, max_batch |-> max_batch, batches |-> batches,
                 rounds |-> Len(round_log)]
    /\ max_batch' = 0
    /\ dynamic' = FALSE
    /\ hashtable' = <<>>
    /\ hashtable_temp' = <<>>
    /\ idx' = 0
    /\ current_batch' = <<>>
    /\ batches' = <<>>
    /\ round_log' = <<>>
    /\ bpc' = "start"
    /\ UNCHANGED <<articles, lists>>
    /\ UNCHANGED notB

(***************************************************************************)
(* AsyncLinkScraper                                                        *)
(***************************************************************************)
\* Python values that travel between _fetch, _fetch_and_parse, raw_data and
\* scrape.  kind: "text" (response body), "list" (list of links), "None",
\* "raise" (an exception leaving the callee), "pending" (no value yet).
PyValue(kind, raw, url, links) ==
    [kind |-> kind, raw |-> raw, url |-> url, links |-> links]

PyNone == PyValue("None", "", <<0, 0, 0>>, <<>>)
PyRaise == PyValue("raise", "", <<0, 0, 0>>, <<>>)
PyPending == PyValue("pending", "", <<0, 0, 0>>, <<>>)
PyList(links) == PyValue("list", "", <<0, 0, 0>>, links)
PyText(raw, url) == PyValue("text", raw, url, <<>>)

\* What the body behind a URL looks like to the parser of the subclass.
RawContents == {"empty", "links", "malformed"}

\* What the transport answers to session.get / raise_for_status / text().
FetchOutcomes ==
    {[tag |-> "Ok", raw |-> c] : c \in RawContents}
        \cup {[tag |-> "TransportError", raw |-> ""],
              [tag |-> "HttpStatusError", raw |-> ""]}

FailureTags == {"TransportError", "HttpStatusError"}

\* lines 98-112 / 298-334: the URL is a function of the window and the page
_url(start_date, end_date, page_num) == <<start_date, end_date, page_num>>

\* lines 159-170: parse_content is abstract.  A page of shape "links" holds
\* one link of its own followed by one link every page of the window
\* repeats; "empty" holds none; on "malformed" the parser raises.
parse_content(content) ==
    CASE content.raw = "links" ->
             PyList(<< <<content.url[1], content.url[3]>>,
                       <<content.url[1], 0>> >>)
      [] content.raw = "empty" -> PyList(<<>>)
      [] OTHER -> PyRaise

_fetch_uncaught(outcome, url) ==
    IF outcome.tag = "Ok" THEN PyText(outcome.raw, url) ELSE PyRaise

\* lines 114-131
_fetch(outcome, url) ==
    IF outcome.tag = "Ok" THEN PyText(outcome.raw, url) ELSE PyNone

_fetch_and_parse_none(outcome, url) ==
    LET content == _fetch(outcome, url)
    IN  IF content.kind = "raise" THEN PyRaise
        ELSE IF content.kind # "None"
        THEN LET parsed == parse_content(content)
             IN  IF parsed.kind = "raise" THEN PyNone ELSE parsed
        ELSE PyNone

\* lines 133-156 (after the sleep): the value the coroutine finishes with
_fetch_and_parse(outcome, url) ==
    LET content == _fetch(outcome, url)
    IN  IF content.kind = "raise" THEN PyRaise
        ELSE IF content.kind # "None"
        THEN LET parsed == parse_content(content)
             IN  IF parsed.kind = "raise"
                 THEN PyNone       \* line 153, then falls off the end
                 ELSE parsed       \* line 151
        ELSE PyList(<<>>)          \* line 156

\* One _fetch_and_parse coroutine.  outcome is the transport's answer, kept
\* for reference once the coroutine is done.
Task(state, url, outcome, result) ==
    [state |-> state, url |-> url, outcome |-> outcome, result |-> result]

\* lines 185-188: one coroutine per page 1..num_pages of a window
NewTasks(w, dr, n) ==
    [k \in {<<w, p>> : p \in 1..n} |->
        Task("sleep", _url(dr[w][1], dr[w][2], k[2]), "pending", PyPending)]

TaskKeys == (1..MaxWindows) \X (1..MaxPages)

WindowKeys(ts, w) == {k \in DOMAIN ts : k[1] = w}

GatherFirstCompleted(ts, w) ==
    \/ WindowKeys(ts, w) = {}
    \/ \E k \in WindowKeys(ts, w) : ts[k].state = "done"

\* line 190: gather returns when every coroutine is done, or raises as soon
\* as one of them raises
GatherReady(ts, w) ==
    \/ \A k \in WindowKeys(ts, w) : ts[k].state = "done"
    \/ \E k \in WindowKeys(ts, w) : ts[k].result.kind = "raise"

\* the coroutines that are still running when gather hands over
StillRunning(ts) ==
    [k \in {x \in DOMAIN ts : ts[x].state # "done"} |-> ts[k]]

Merge(f, g) ==
    [k \in (DOMAIN f) \cup (DOMAIN g) |-> IF k \in DOMAIN g THEN g[k] ELSE f[k]]

NoTasks == [k \in {} |-> PyPending]

\* fetches issued and not yet answered
InFlight(ts) == Cardinality({k \in DOMAIN ts : ts[k].state = "fetching"})

\* how the fetches of a window went: "all_failed", "all_ok", "mixed", "none"
FetchSummary(ts, w) ==
    LET ks == WindowKeys(ts, w)
        failed == {k \in ks : ts[k].outcome \in FailureTags}
    IN  IF ks = {} THEN "none"
        ELSE IF failed = ks THEN "all_failed"
        ELSE IF failed = {} THEN "all_ok"
        ELSE "mixed"

RECURSIVE FlattenLinksReversed(_)
FlattenLinksReversed(result_contents) ==
    IF result_contents = <<>> THEN <<>>
    ELSE FlattenLinksReversed(Tail(result_contents)) \o Head(result_contents).links

\* line 208: [link for sublist in result_contents for link in sublist]
RECURSIVE FlattenLinks(_)
FlattenLinks(result_contents) ==
    IF result_contents = <<>> THEN <<>>
    ELSE Head(result_contents).links \o FlattenLinks(Tail(result_contents))

\* lines 207-214: the rows after the window at index w has been gathered.
\* window and fetches are not columns of the table: they record which
\* window a row came from and how its fetches went.
RowsAfterPrepend(rs, ts, w, dr, n) ==
    LET result_contents == [p \in 1..n |-> ts[<<w, p>>].result]
        failed == \E p \in 1..n : result_contents[p].kind # "list"
        row == [start_date |-> dr[w][1], end_date |-> dr[w][2],
                links |-> FlattenLinks(result_contents),
                window |-> w, fetches |-> FetchSummary(ts, w)]
    IN  IF failed THEN rs ELSE <<row>> \o rs

RowsAfter(rs, ts, w, dr, n) ==
    LET result_contents == [p \in 1..n |-> ts[<<w, p>>].result]
        \* gather raised, or iterating a None sublist raises TypeError
        failed == \E p \in 1..n : result_contents[p].kind # "list"
        row == [start_date |-> dr[w][1], end_date |-> dr[w][2],
                links |-> FlattenLinks(result_contents),
                window |-> w, fetches |-> FetchSummary(ts, w)]
    IN  IF failed THEN rs ELSE Append(rs, row)

\* the window lists scrape is called with: consecutive single days
DateRanges == {[x \in 1..n |-> <<x, x>>] : n \in 1..MaxWindows}

\* lines 35-44: the scraper after __init__; scrape not yet called
SIdle ==
    /\ num_pages = 1
    /\ date_range = <<>>
    /\ win = 0
    /\ tasks = NoTasks
    /\ n_tasks = 0
    /\ rows = <<>>
    /\ spc = "idle"
    /\ overtaken = {}

\* line 388: __call__ assigns self.num_pages; it may run whenever the scrape
\* coroutine is not running, i.e. before it starts or while it is suspended
SetNumPages(n) ==
    /\ spc \in {"idle", "gather"}
    /\ n # num_pages
    /\ num_pages' = n
    /\ UNCHANGED <<date_range, win, tasks, n_tasks, rows, spc, overtaken>>
    /\ UNCHANGED notS

\* lines 203-207 and 185-190: scrape starts and awaits the first window
ScrapeStart(dr) ==
    /\ spc = "idle"
    /\ date_range' = dr
    /\ rows' = <<>>
    /\ win' = 1
    /\ tasks' = NewTasks(1, dr, num_pages)
    /\ n_tasks' = num_pages
    /\ spc' = "gather"
    /\ overtaken' = {}
    /\ UNCHANGED num_pages
    /\ UNCHANGED notS

\* lines 145-148, 126: the sleep of a coroutine ends and it issues its fetch
FetchIssue(k) ==
    /\ k \in DOMAIN tasks
    /\ tasks[k].state = "sleep"
    /\ tasks' = [tasks EXCEPT ![k].state = "fetching"]
    /\ UNCHANGED <<num_pages, date_range, win, n_tasks, rows, spc, overtaken>>
    /\ UNCHANGED notS

\* lines 126-131, 148-156: the transport answers and the coroutine finishes
FetchAnswer(k, outcome) ==
    /\ k \in DOMAIN tasks
    /\ tasks[k].state = "fetching"
    /\ tasks' = [tasks EXCEPT ![k] =
                    Task("done", @.url, outcome.tag,
                         _fetch_and_parse(outcome, @.url))]
    /\ overtaken' = IF \E j \in WindowKeys(tasks, k[1]) :
                          j[2] < k[2] /\ tasks[j].state # "done"
                    THEN overtaken \cup {k[1]}
                    ELSE overtaken
    /\ UNCHANGED <<num_pages, date_range, win, n_tasks, rows, spc>>
    /\ UNCHANGED notS

\* lines 190, 207-214, then 205 again (next window: 185-190) or 216-217
GatherReturn ==
    /\ spc = "gather"
    /\ GatherReady(tasks, win)
    /\ rows' = RowsAfter(rows, tasks, win, date_range, n_tasks)
    /\ IF win < Len(date_range)
       THEN /\ win' = win + 1
            /\ tasks' = Merge(StillRunning(tasks),
                              NewTasks(win + 1, date_range, num_pages))
            /\ n_tasks' = num_pages
            /\ spc' = "gather"
       ELSE /\ win' = win
            /\ tasks' = StillRunning(tasks)
            /\ n_tasks' = n_tasks
            /\ spc' = "done"
    /\ UNCHANGED <<num_pages, date_range, overtaken>>
    /\ UNCHANGED notS

\* _batchify is not running
BIdle ==
    /\ articles = <<>>
    /\ max_batch = 0
    /\ dynamic = FALSE
    /\ hashtable = <<>>
    /\ hashtable_temp = <<>>
    /\ lists = [d \in Domains |-> <<>>]
    /\ idx = 0
    /\ current_batch = <<>>
    /\ batches = <<>>
    /\ bpc = "idle"
    /\ round_log = <<>>
    /\ first = NoFirst

(***************************************************************************)
(* AsyncLinkScraper.run (async_link_scraper.py, lines 220-258) and the     *)
(* legacy LinkScraper.__call__ / scrape (link_scraper.py, lines 203-269).  *)
(* Dates are day numbers; timedelta(days=x) adds x, timedelta(weeks=i)     *)
(* adds 7 * i.                                                             *)
(***************************************************************************)
Methods == {"daily", "weekly", "monthly"}

Implementations == {"async", "legacy"}

Starts == 0..1

\* range(n) as a list: 0, 1, ..., n - 1 (empty when n <= 0)
PyRange(n) == [i \in 1..n |-> i - 1]

\* (end_date - start_date).days
Days(start, end) == end - start

DailyWindowsInclusive(start, end) ==
    LET r == PyRange(Days(start, end) + 1)
    IN  [k \in 1..Len(r) |-> <<start + r[k], start + r[k]>>]

\* lines 237-238: one window per x of the range, in the order of the range
DailyWindows(start, end) ==
    LET r == PyRange(Days(start, end))
    IN  [k \in 1..Len(r) |-> <<start + r[k], start + r[k]>>]

\* lines 240-241: one window per i of the range, in the order of the range
WeeklyWindows(start, end) ==
    LET r == PyRange(Days(start, end) \div 7)
    IN  [k \in 1..Len(r) |-> <<start + 7 * r[k], start + 7 * (r[k] + 1)>>]

MethodWindowsDefaultDaily(method, start, end) ==
    IF method = "weekly" THEN WeeklyWindows(start, end)
    ELSE DailyWindows(start, end)

\* lines 235-246: the ValueError of line 243 is caught at line 244, logged,
\* and leaves the empty list
MethodWindows(method, start, end) ==
    CASE method = "daily" -> DailyWindows(start, end)
      [] method = "weekly" -> WeeklyWindows(start, end)
      [] OTHER -> <<>>

\* run has not been called
RIdle ==
    /\ r_impl = "async"
    /\ r_method = "daily"
    /\ r_start = 0
    /\ r_end = 0
    /\ r_date_range = <<>>
    /\ r_w = 0
    /\ r_rows = <<>>
    /\ r_fetches = 0
    /\ r_uploads = 0
    /\ r_result = "pending"
    /\ r_pc = "idle"

\* lines 235-246: the call builds its window list
RunWindows(impl, method, start, end) ==
    /\ r_pc = "idle"
    /\ r_impl' = impl
    /\ r_method' = method
    /\ r_start' = start
    /\ r_end' = end
    /\ r_date_range' = MethodWindows(method, start, end)
    /\ r_pc' = "check"
    /\ UNCHANGED <<r_w, r_rows, r_fetches, r_uploads, r_result>>
    /\ UNCHANGED notR

\* lines 248, 256-258: nothing to scrape; the call logs and returns None
RunNoRange ==
    /\ r_pc = "check"
    /\ Len(r_date_range) = 0
    /\ r_result' = "None"
    /\ r_pc' = "returned"
    /\ UNCHANGED <<r_impl, r_method, r_start, r_end, r_date_range, r_w, r_rows,
                   r_fetches, r_uploads>>
    /\ UNCHANGED notR

\* lines 248-251.  async: scrape(...) only creates the coroutine, none of
\* its code runs inside run.  legacy: scrape starts its loop over windows.
RunScrape ==
    /\ r_pc = "check"
    /\ Len(r_date_range) # 0
    /\ r_w' = IF r_impl = "legacy" THEN 1 ELSE 0
    /\ r_rows' = <<>>
    /\ r_pc' = IF r_impl = "legacy" THEN "fetch" ELSE "upload"
    /\ UNCHANGED <<r_impl, r_method, r_start, r_end, r_date_range, r_fetches,
                   r_uploads, r_result>>
    /\ UNCHANGED notR

\* link_scraper.py lines 216-225: one window of the legacy scrape: the
\* fetch is issued, and the window gets a row only if a response came back
RunLegacyFetch(ok) ==
    /\ r_pc = "fetch"
    /\ r_fetches' = r_fetches + 1
    /\ r_rows' = IF ok THEN Append(r_rows, r_w) ELSE r_rows
    /\ IF r_w < Len(r_date_range)
       THEN r_w' = r_w + 1 /\ r_pc' = "fetch"
       ELSE r_w' = r_w /\ r_pc' = "upload"
    /\ UNCHANGED <<r_impl, r_method, r_start, r_end, r_date_range, r_uploads,
                   r_result>>
    /\ UNCHANGED notR

StoreOutcomes == {"ok", "ClientError", "other"}

\* lines 252-255.  legacy: the table is put to the store; upload_dataframe
\* absorbs a ClientError, any other failure of the client is raised through
\* the call.  async: df is a coroutine object, df.to_csv raises
\* AttributeError inside upload_dataframe before put_object is reached, and
\* run raises it.
RunUpload(store) ==
    /\ r_pc = "upload"
    /\ r_uploads' = IF r_impl = "legacy" THEN r_uploads + 1 ELSE r_uploads
    /\ r_result' = IF r_impl = "legacy" /\ store # "other" THEN "table"
                   ELSE "raised"
    /\ r_pc' = "returned"
    /\ UNCHANGED <<r_impl, r_method, r_start, r_end, r_date_range, r_w, r_rows,
                   r_fetches>>
    /\ UNCHANGED notR

(***************************************************************************)
(* S3Bucket (utils/S3.py): what each operation hands back for each outcome *)
(* of the underlying client call.  "404" is a ClientError with code 404,   *)
(* "ClientError" any other ClientError, "other" an exception that is not a *)
(* ClientError (no credentials, endpoint unreachable, ...).  "raised"      *)
(* stands for an exception leaving the operation.                          *)
(***************************************************************************)
ClientOutcomes == {"ok", "404", "ClientError", "other"}

\* lines 62-76: a ClientError that is not a 404 is logged and the method
\* falls off its end
bucket_exists(out) ==
    CASE out = "ok" -> "True"
      [] out = "404" -> "False"
      [] out = "ClientError" -> "None"
      [] OTHER -> "raised"

\* lines 27-33
S3Bucket(out) ==
    IF bucket_exists(out) = "True" THEN "bucket" ELSE "raised"

\* lines 135-144
upload_dataframe(out) ==
    CASE out = "ok" -> "True"
      [] out \in {"404", "ClientError"} -> "False"
      [] OTHER -> "raised"

(***************************************************************************)
(* NewsArticle (news_article.py) and _scrape_batch / article_scraper       *)
(* (articles/scraper.py, lines 70-155)                                     *)
(***************************************************************************)
\* NewsArticle.__init__, lines 38-53; the url stands for the article
FreshArticle(u) ==
    [url |-> u, query |-> "q", title |-> "", text |-> "", authors |-> <<>>,
     publish_date |-> "1970-01-01", summary |-> "",
     downloaded |-> FALSE, parsed |-> FALSE, nlp_applied |-> FALSE]

\* what newspaper's Article.parse() leaves in the Article, or its raising;
\* publish_date is None when the page carries no date
ParseOutcomes ==
    {[ok |-> FALSE, title |-> "", text |-> "", authors |-> <<>>,
      publish_date |-> "None"],
     [ok |-> TRUE, title |-> "T", text |-> "X", authors |-> <<"A">>,
      publish_date |-> "2023-01-01"],
     [ok |-> TRUE, title |-> "T", text |-> "X", authors |-> <<"A">>,
      publish_date |-> "None"]}

\* what Article.nlp() leaves in the Article, or its raising
NlpOutcomes ==
    {[ok |-> FALSE, summary |-> ""], [ok |-> TRUE, summary |-> "S"]}

download_resets(a, ok) ==
    IF ok THEN [art |-> [a EXCEPT !.downloaded = TRUE], ret |-> TRUE]
    ELSE [art |-> [a EXCEPT !.downloaded = FALSE], ret |-> FALSE]

\* lines 55-70
download(a, ok) ==
    IF ok THEN [art |-> [a EXCEPT !.downloaded = TRUE], ret |-> TRUE]
    ELSE [art |-> a, ret |-> FALSE]

parse_partial(a, out) ==
    IF out.ok
    THEN [art |-> [a EXCEPT !.title = out.title, !.text = out.text,
                            !.authors = out.authors,
                            !.publish_date = out.publish_date,
                            !.parsed = TRUE],
          ret |-> TRUE]
    ELSE [art |-> [a EXCEPT !.publish_date = out.publish_date], ret |-> FALSE]

\* lines 72-93
parse(a, out) ==
    IF out.ok
    THEN [art |-> [a EXCEPT !.title = out.title, !.text = out.text,
                            !.authors = out.authors,
                            !.publish_date = out.publish_date,
                            !.parsed = TRUE],
          ret |-> TRUE]
    ELSE [art |-> a, ret |-> FALSE]

\* lines 95-113
nlp(a, out) ==
    IF out.ok
    THEN [art |-> [a EXCEPT !.summary = out.summary, !.nlp_applied = TRUE],
          ret |-> TRUE]
    ELSE [art |-> a, ret |-> FALSE]

MetadataKeys ==
    {"url", "query", "title", "text", "authors", "publish_date", "summary"}

\* a dict: the keys it has and, for the keys it has, their values
EmptyDict ==
    [keys |-> {}, url |-> 0, query |-> "", title |-> "", text |-> "",
     authors |-> <<>>, publish_date |-> "", summary |-> ""]

\* lines 115-135; None is the only falsy publish_date
metadata(a) ==
    IF a.publish_date = "None" THEN EmptyDict
    ELSE IF a.downloaded /\ a.parsed
         THEN [keys |-> MetadataKeys, url |-> a.url, query |-> a.query,
               title |-> a.title, text |-> a.text, authors |-> a.authors,
               publish_date |-> a.publish_date, summary |-> a.summary]
         ELSE EmptyDict

\* line 141, pd.DataFrame(results): the columns are the keys met in the
\* records, one row per record, a cell is missing where the record has no
\* such key
DataFrame(records) ==
    [columns |-> UNION {records[k].keys : k \in 1..Len(records)},
     rows |-> records]

\* line 141, dropna(axis="rows"): a row stays when none of the columns is
\* missing in it; with no column at all every row stays
dropna(df) ==
    [columns |-> df.columns,
     rows |-> SelectSeq(df.rows, LAMBDA r : \A c \in df.columns : c \in r.keys)]

\* the consecutive batches of articles lo..n, cut after each index of cuts
RECURSIVE Batches(_, _, _)
Batches(lo, n, cuts) ==
    IF lo > n THEN <<>>
    ELSE LET hi == CHOOSE c \in (cuts \cup {n}) :
                       c >= lo /\ \A d \in (cuts \cup {n}) : d >= lo => c <= d
         IN  <<[k \in 1..(hi - lo + 1) |-> lo + k - 1]>> \o Batches(hi + 1, n, cuts)

\* line 132: what _batchify hands back for n articles: their batches,
\* followed or not by the empty batch of its final flush (always for n = 0)
Layout(n, cuts, trailing) ==
    Batches(1, n, cuts) \o (IF trailing \/ n = 0 THEN << <<>> >> ELSE <<>>)

Stages == {"download", "parse", "nlp"}

StageOverEarly(batch, i) == i > 1 \/ i > Len(batch)

\* lines 89, 98, 107: gather returns when every coroutine of the stage has
\* finished
StageOver(batch, i) == i > Len(batch)

SleptNot(n) == n

\* line 139: await asyncio.sleep(delay)
Slept(n) == n + 1

NoCall == [stage |-> "none", i |-> 0, ret |-> TRUE, same |-> TRUE]

Call(stage, i, r, a) == [stage |-> stage, i |-> i, ret |-> r.ret, same |-> r.art = a]

\* no article exists and article_scraper has not been called
AIdle ==
    /\ a_arts = <<>>
    /\ a_call = NoCall
    /\ a_tried = <<>>
    /\ a_batches = <<>>
    /\ a_save_path = FALSE
    /\ a_s3_path = FALSE
    /\ a_s3_name = FALSE
    /\ a_b = 0
    /\ a_i = 0
    /\ a_slept = 0
    /\ a_results = <<>>
    /\ a_table = DataFrame(<<>>)
    /\ a_fault = "none"
    /\ a_result = "pending"
    /\ a_pc = "idle"

apipe == <<a_tried, a_batches, a_save_path, a_s3_path, a_s3_name, a_b, a_i,
           a_slept, a_results, a_table, a_fault, a_result, a_pc>>

\* NewsArticle(query, url)
ArticleNew ==
    /\ a_pc = "idle"
    /\ Len(a_arts) < MaxItems
    /\ a_arts' = Append(a_arts, FreshArticle(Len(a_arts) + 1))
    /\ a_tried' = Append(a_tried, {})
    /\ UNCHANGED <<a_call, a_batches, a_save_path, a_s3_path, a_s3_name, a_b,
                   a_i, a_slept, a_results, a_table, a_fault, a_result, a_pc>>
    /\ UNCHANGED notA

\* article.download() called on its own
ArticleDownload(i, ok) ==
    /\ a_pc = "idle"
    /\ i <= Len(a_arts)
    /\ LET r == download(a_arts[i], ok)
       IN  /\ a_arts' = [a_arts EXCEPT ![i] = r.art]
           /\ a_call' = Call("download", i, r, a_arts[i])
    /\ UNCHANGED apipe
    /\ UNCHANGED notA

\* article.parse() called on its own; the library parses only what it has
\* downloaded
ArticleParse(i, out) ==
    /\ a_pc = "idle"
    /\ i <= Len(a_arts)
    /\ out.ok => a_arts[i].downloaded
    /\ LET r == parse(a_arts[i], out)
       IN  /\ a_arts' = [a_arts EXCEPT ![i] = r.art]
           /\ a_call' = Call("parse", i, r, a_arts[i])
    /\ UNCHANGED apipe
    /\ UNCHANGED notA

\* article.nlp() called on its own; the library summarises only what it has
\* parsed
ArticleNlp(i, out) ==
    /\ a_pc = "idle"
    /\ i <= Len(a_arts)
    /\ out.ok => a_arts[i].parsed
    /\ LET r == nlp(a_arts[i], out)
       IN  /\ a_arts' = [a_arts EXCEPT ![i] = r.art]
           /\ a_call' = Call("nlp", i, r, a_arts[i])
    /\ UNCHANGED apipe
    /\ UNCHANGED notA

\* lines 132-134: article_scraper(articles, max_batch, delay, save_path,
\* s3_path, s3_name) gets its batches and enters its loop
ScraperStart(cuts, trailing, save_path, s3_path, s3_name) ==
    /\ a_pc = "idle"
    /\ cuts \subseteq 1..(Len(a_arts) - 1)
    /\ a_batches' = Layout(Len(a_arts), cuts, trailing)
    /\ a_save_path' = save_path
    /\ a_s3_path' = s3_path
    /\ a_s3_name' = s3_name
    /\ a_b' = 1
    /\ a_i' = 1
    /\ a_pc' = "download"
    /\ UNCHANGED <<a_arts, a_call, a_tried, a_slept, a_results, a_table, a_fault,
                   a_result>>
    /\ UNCHANGED notA

\* lines 82-88: download_article on the next article of the batch
BatchDownload(ok) ==
    /\ a_pc = "download"
    /\ a_i <= Len(a_batches[a_b])
    /\ LET i == a_batches[a_b][a_i]
           r == download(a_arts[i], ok)
       IN  /\ IF ~a_arts[i].downloaded
              THEN /\ a_arts' = [a_arts EXCEPT ![i] = r.art]
                   /\ a_call' = Call("download", i, r, a_arts[i])
              ELSE UNCHANGED <<a_arts, a_call>>
           /\ a_tried' = [a_tried EXCEPT ![i] = @ \cup {"download"}]
    /\ a_i' = a_i + 1
    /\ UNCHANGED <<a_batches, a_save_path, a_s3_path, a_s3_name, a_b, a_slept,
                   a_results, a_table, a_fault, a_result, a_pc>>
    /\ UNCHANGED notA

\* lines 91-97: parse_article on the next article of the batch
BatchParse(out) ==
    /\ a_pc = "parse"
    /\ a_i <= Len(a_batches[a_b])
    /\ LET i == a_batches[a_b][a_i]
           r == parse(a_arts[i], out)
       IN  /\ out.ok => a_arts[i].downloaded
           /\ IF ~a_arts[i].parsed
              THEN /\ a_arts' = [a_arts EXCEPT ![i] = r.art]
                   /\ a_call' = Call("parse", i, r, a_arts[i])
              ELSE UNCHANGED <<a_arts, a_call>>
           /\ a_tried' = [a_tried EXCEPT ![i] = @ \cup {"parse"}]
    /\ a_i' = a_i + 1
    /\ UNCHANGED <<a_batches, a_save_path, a_s3_path, a_s3_name, a_b, a_slept,
                   a_results, a_table, a_fault, a_result, a_pc>>
    /\ UNCHANGED notA

\* lines 100-106: apply_nlp_article on the next article of the batch
BatchNlp(out) ==
    /\ a_pc = "nlp"
    /\ a_i <= Len(a_batches[a_b])
    /\ LET i == a_batches[a_b][a_i]
           r == nlp(a_arts[i], out)
       IN  /\ out.ok => a_arts[i].parsed
           /\ IF ~a_arts[i].nlp_applied
              THEN /\ a_arts' = [a_arts EXCEPT ![i] = r.art]
                   /\ a_call' = Call("nlp", i, r, a_arts[i])
              ELSE UNCHANGED <<a_arts, a_call>>
           /\ a_tried' = [a_tried EXCEPT ![i] = @ \cup {"nlp"}]
    /\ a_i' = a_i + 1
    /\ UNCHANGED <<a_batches, a_save_path, a_s3_path, a_s3_name, a_b, a_slept,
                   a_results, a_table, a_fault, a_result, a_pc>>
    /\ UNCHANGED notA

\* lines 89, 98, 107: a gather returns once every article of the batch went
\* through the stage
BatchGather ==
    /\ a_pc \in Stages
    /\ StageOver(a_batches[a_b], a_i)
    /\ a_pc' = CASE a_pc = "download" -> "parse"
                 [] a_pc = "parse" -> "nlp"
                 [] OTHER -> "collect"
    /\ a_i' = 1
    /\ UNCHANGED <<a_arts, a_call, a_tried, a_batches, a_save_path, a_s3_path,
                   a_s3_name, a_b, a_slept, a_results, a_table, a_fault, a_result>>
    /\ UNCHANGED notA

\* lines 109-112 and 138: the batch's metadata records, in item order,
\* join the results
BatchCollect ==
    /\ a_pc = "collect"
    /\ a_results' = a_results \o
           [k \in 1..Len(a_batches[a_b]) |-> metadata(a_arts[a_batches[a_b][k]])]
    /\ a_pc' = "sleep"
    /\ UNCHANGED <<a_arts, a_call, a_tried, a_batches, a_save_path, a_s3_path,
                   a_s3_name, a_b, a_i, a_slept, a_table, a_fault, a_result>>
    /\ UNCHANGED notA

\* lines 137, 139: the delay is waited after the batch, then the loop goes
\* to the next batch or ends
BatchSleep ==
    /\ a_pc = "sleep"
    /\ a_slept' = Slept(a_slept)
    /\ IF a_b < Len(a_batches)
       THEN a_b' = a_b + 1 /\ a_pc' = "download"
       ELSE a_b' = a_b /\ a_pc' = "table"
    /\ UNCHANGED <<a_arts, a_call, a_tried, a_batches, a_save_path, a_s3_path,
                   a_s3_name, a_i, a_results, a_table, a_fault, a_result>>
    /\ UNCHANGED notA

\* lines 140-141
ScraperTable ==
    /\ a_pc = "table"
    /\ a_table' = dropna(DataFrame(a_results))
    /\ a_pc' = "save"
    /\ UNCHANGED <<a_arts, a_call, a_tried, a_batches, a_save_path, a_s3_path,
                   a_s3_name, a_b, a_i, a_slept, a_results, a_fault, a_result>>
    /\ UNCHANGED notA

\* lines 146-147: df.to_csv(save_path) writes the file or raises
ScraperSave(ok) ==
    /\ a_pc = "save"
    /\ IF a_save_path /\ ~ok
       THEN a_fault' = "save" /\ a_result' = "raised" /\ a_pc' = "returned"
       ELSE a_pc' = "s3" /\ UNCHANGED <<a_fault, a_result>>
    /\ UNCHANGED <<a_arts, a_call, a_tried, a_batches, a_save_path, a_s3_path,
                   a_s3_name, a_b, a_i, a_slept, a_results, a_table>>
    /\ UNCHANGED notA

\* lines 149-155: head is the outcome of the client's head_bucket, put that
\* of its put_object
ScraperUpload(head, put) ==
    /\ a_pc = "s3"
    /\ a_fault' =
         IF a_s3_path /\ a_s3_name
         THEN IF S3Bucket(head) = "raised" THEN "open"
              ELSE IF upload_dataframe(put) = "raised" THEN "upload"
              ELSE "none"
         ELSE "none"
    /\ a_result' = IF a_fault' = "none" THEN "table" ELSE "raised"
    /\ a_pc' = "returned"
    /\ UNCHANGED <<a_arts, a_call, a_tried, a_batches, a_save_path, a_s3_path,
                   a_s3_name, a_b, a_i, a_slept, a_results, a_table>>
    /\ UNCHANGED notA

(***************************************************************************)
(* S3Bucket (src/S3.py; utils/S3.py has the same operations): the bucket   *)
(* object, the one key it is used with, and the tables that go through     *)
(* upload_dataframe / get_dataframe.                                       *)
(* A cell is a Python value: its type and the text str() gives for it.     *)
(***************************************************************************)
Cell(type, text) == [type |-> type, text |-> text]

NaN == Cell("nan", "")

\* the values a cell of a table may hold: an int, strings (one of them
\* empty), a list of links or authors, a date
Cells ==
    {Cell("int", "7"), Cell("str", "abc"), Cell("str", ""), Cell("str", "7"),
     Cell("list", "['u']"), Cell("date", "2023-01-01")}

\* read_csv and literal_eval work column by column: one column is enough
ColumnNames == {"column"}

\* a table: its columns, its number of rows, and the cells of each column
Frame(columns, n, data) == [columns |-> columns, n |-> n, data |-> data]

\* pd.DataFrame()
EmptyFrame == Frame({}, 0, [c \in ColumnNames |-> <<>>])

Frames ==
    UNION {{Frame(S, n, [c \in ColumnNames |-> IF c \in S THEN f[c] ELSE <<>>]) :
               f \in [ColumnNames -> [1..n -> Cells]]} :
           S \in SUBSET ColumnNames, n \in 0..MaxRows}

\* line 111, df.to_csv(csv_buffer, index=False): a header of the column
\* names, then every cell as the text of its value, a missing value as
\* nothing
to_csv(df) ==
    [columns |-> df.columns, n |-> df.n,
     text |-> [c \in ColumnNames |->
                  [k \in 1..Len(df.data[c]) |->
                      IF df.data[c][k].type = "nan" THEN ""
                      ELSE df.data[c][k].text]]]

IntTexts == {"7"}

ListTexts == {"['u']"}

\* line 155, pd.read_csv: a column whose fields are all integers is read as
\* integers, any other column as strings; an empty field is a missing
\* value in both
ReadColumn(texts) ==
    LET numeric == \A k \in 1..Len(texts) : texts[k] \in IntTexts \cup {""}
    IN  [k \in 1..Len(texts) |->
            IF texts[k] = "" THEN NaN
            ELSE IF numeric THEN Cell("int", texts[k])
            ELSE Cell("str", texts[k])]

\* ast.literal_eval on one cell: whether it evaluates, and to what.  Only a
\* string holding a Python literal evaluates; a non-string (an int or a
\* missing value) raises ValueError
Evaluates(cell) == cell.type = "str" /\ cell.text \in IntTexts \cup ListTexts

literal_eval(cell) ==
    IF cell.text \in IntTexts THEN Cell("int", cell.text)
    ELSE Cell("list", cell.text)

\* lines 156-160: the column is replaced as a whole when every cell
\* evaluates, and left as read when any cell raises
EvalColumn(cells) ==
    IF \A k \in 1..Len(cells) : Evaluates(cells[k])
    THEN [k \in 1..Len(cells) |-> literal_eval(cells[k])]
    ELSE cells

\* lines 155-161 on a body that read_csv accepts
ReadFrame(csv) ==
    Frame(csv.columns, csv.n,
          [c \in ColumnNames |-> EvalColumn(ReadColumn(csv.text[c]))])

\* read_csv finds no column to parse in the body of a table without columns
\* and raises EmptyDataError
Unreadable(csv) == csv.columns = {}

NoObject == [present |-> FALSE, body |-> to_csv(EmptyFrame)]

Object(csv) == [present |-> TRUE, body |-> csv]

NoOp == [name |-> "none", out |-> "ok", ret |-> "None"]

Op(name, out, ret) == [name |-> name, out |-> out, ret |-> ret]

\* lines 63-68, 197-203: a client call wrapped in try / except ClientError
BestEffort(out, good, bad) ==
    CASE out = "ok" -> good
      [] out \in {"404", "ClientError"} -> bad
      [] OTHER -> "raised"

\* lines 215-222: a client call wrapped in try / except Exception
CatchAll(out, good, bad) == IF out = "ok" THEN good ELSE bad

\* no S3Bucket has been constructed
TIdle ==
    /\ t_bucket = "none"
    /\ t_store = NoObject
    /\ t_df = EmptyFrame
    /\ t_got = EmptyFrame
    /\ t_op = NoOp

\* lines 29-34: S3Bucket(bucket_name)
S3New(out) ==
    /\ t_bucket = "none"
    /\ t_bucket' = S3Bucket(out)
    /\ t_op' = Op("__init__", out, S3Bucket(out))
    /\ UNCHANGED <<t_store, t_df, t_got>>
    /\ UNCHANGED notT

\* lines 36-50
S3BucketExists(out) ==
    /\ t_bucket = "bucket"
    /\ t_op' = Op("bucket_exists", out, bucket_exists(out))
    /\ UNCHANGED <<t_bucket, t_store, t_df, t_got>>
    /\ UNCHANGED notT

\* lines 52-68
S3ObjectList(out) ==
    /\ t_bucket = "bucket"
    /\ t_op' = Op("object_list", out, BestEffort(out, "list", "empty"))
    /\ UNCHANGED <<t_bucket, t_store, t_df, t_got>>
    /\ UNCHANGED notT

\* lines 93-120: the table is written under the key when put_object
\* succeeds
S3UploadDataframe(df, out) ==
    /\ t_bucket = "bucket"
    /\ t_op' = Op("upload_dataframe", out, upload_dataframe(out))
    /\ IF out = "ok"
       THEN t_store' = Object(to_csv(df)) /\ t_df' = df /\ t_got' = EmptyFrame
       ELSE UNCHANGED <<t_store, t_df, t_got>>
    /\ UNCHANGED t_bucket
    /\ UNCHANGED notT

\* lines 141-164: get_object succeeds only on a key that is there; the
\* table read from its body is returned, or read_csv raises out of the
\* method; a ClientError gives pd.DataFrame()
S3GetDataframe(out) ==
    /\ t_bucket = "bucket"
    /\ out = "ok" => t_store.present
    /\ IF out = "ok"
       THEN IF Unreadable(t_store.body)
            THEN /\ t_op' = Op("get_dataframe", out, "raised")
                 /\ UNCHANGED t_got
            ELSE /\ t_op' = Op("get_dataframe", out, "table")
                 /\ t_got' = ReadFrame(t_store.body)
       ELSE /\ t_op' = Op("get_dataframe", out, BestEffort(out, "table", "empty"))
            /\ t_got' = IF out = "other" THEN t_got ELSE EmptyFrame
    /\ UNCHANGED <<t_bucket, t_store, t_df>>
    /\ UNCHANGED notT

\* lines 186-203
S3Delete(out) ==
    /\ t_bucket = "bucket"
    /\ t_op' = Op("delete", out, BestEffort(out, "True", "False"))
    /\ t_store' = IF out = "ok" THEN NoObject ELSE t_store
    /\ UNCHANGED <<t_bucket, t_df, t_got>>
    /\ UNCHANGED notT

\* lines 205-222
S3ListCsvFiles(out) ==
    /\ t_bucket = "bucket"
    /\ t_op' = Op("list_csv_files", out, CatchAll(out, "list", "empty"))
    /\ UNCHANGED <<t_bucket, t_store, t_df, t_got>>
    /\ UNCHANGED notT

(***************************************************************************)
(* GoogleNewsLinkScraper._get_news_articles (src/google.py, lines 47-61)   *)
(* over Query objects (src/query.py).  Dates are day numbers.              *)
(***************************************************************************)
\* Query.__init__, lines 27-32
Query(query, start, end) == [query |-> query, start |-> start, end |-> end]

\* query.py line 31: every day from start to end, both included; no day
\* when end is before start
Dates(query) ==
    [n \in 1..(query.end - query.start + 1) |-> query.start + (n - 1)]

\* two days, one later day, and a range that holds no day
QueryPool == {Query("x", 0, 1), Query("y", 5, 5), Query("z", 3, 2)}

\* what the search page answers: the request fails, the status is not 200,
\* the page cannot be parsed, or the page is parsed and holds no or one link
Responses == {"unreachable", "status", "malformed", "no links", "links"}

\* lines 84-116: any failure gives the empty list
_get_links(response) == IF response = "links" THEN <<"u">> ELSE <<>>

\* line 55: NewsArticle(query, news_url) for each link of the page; where
\* records the search that yielded the article
NewArticles(query, news_urls, where) ==
    [k \in 1..Len(news_urls) |->
        [query |-> query, url |-> news_urls[k], publish_date |-> -1,
         where |-> where]]

\* lines 57-58
Dated(articles_, q_date) ==
    [k \in 1..Len(articles_) |-> [articles_[k] EXCEPT !.publish_date = q_date]]

\* the first query from index q on that has a day to search, 0 if none
RECURSIVE NextQuery(_, _)
NextQuery(queries, q) ==
    IF q > Len(queries) THEN 0
    ELSE IF Len(Dates(queries[q])) = 0 THEN NextQuery(queries, q + 1)
    ELSE q

FollowingLeavesQuery(queries, pages, q, d, page, stop) ==
    IF ~stop /\ page < pages THEN <<q, d, page + 1>>
    ELSE IF ~stop /\ d < Len(Dates(queries[q])) THEN <<q, d + 1, 1>>
    ELSE <<NextQuery(queries, q + 1), 1, 1>>

\* lines 49-60, loop control: the search that follows page `page` of day
\* number d of query number q; stop is the break of line 60
Following(queries, pages, q, d, page, stop) ==
    IF ~stop /\ page < pages THEN <<q, d, page + 1>>
    ELSE IF d < Len(Dates(queries[q])) THEN <<q, d + 1, 1>>
    ELSE <<NextQuery(queries, q + 1), 1, 1>>

\* _get_news_articles has not been called
GIdle ==
    /\ g_queries = <<>>
    /\ g_pages = 0
    /\ g_at = <<0, 1, 1>>
    /\ g_articles = <<>>
    /\ g_pc = "idle"

\* lines 47-51: the call reaches its first search, if there is any
GoogleCall(queries, pages) ==
    /\ g_pc = "idle"
    /\ g_queries' = queries
    /\ g_pages' = pages
    /\ g_articles' = <<>>
    /\ g_at' = <<IF pages >= 1 THEN NextQuery(queries, 1) ELSE 0, 1, 1>>
    /\ g_pc' = "search"
    /\ UNCHANGED notG

\* lines 52-60: one page is searched, its links become articles, every
\* article found so far is dated with the day of this search, and the
\* loops move on
GoogleSearch(response) ==
    /\ g_pc = "search"
    /\ g_at[1] # 0
    /\ response = "links" => Len(g_articles) < MaxFound
    /\ LET query == g_queries[g_at[1]]
           q_date == Dates(query)[g_at[2]]
           news_urls == _get_links(response)
           found == g_articles \o NewArticles(query, news_urls, g_at)
       IN  /\ g_articles' = Dated(found, q_date)
           /\ g_at' = Following(g_queries, g_pages, g_at[1], g_at[2], g_at[3],
                                Len(found) = 0)
    /\ UNCHANGED <<g_queries, g_pages, g_pc>>
    /\ UNCHANGED notG

\* line 61
GoogleReturn ==
    /\ g_pc = "search"
    /\ g_at[1] = 0
    /\ g_pc' = "returned"
    /\ UNCHANGED <<g_queries, g_pages, g_at, g_articles>>
    /\ UNCHANGED notG

(***************************************************************************)
(* Specifications                                                          *)
(***************************************************************************)
ScrapeInit == SIdle /\ BIdle /\ RIdle /\ AIdle /\ TIdle /\ GIdle

ScrapeNext ==
    \/ \E n \in 0..MaxPages : SetNumPages(n)
    \/ \E dr \in DateRanges : ScrapeStart(dr)
    \/ \E k \in TaskKeys : FetchIssue(k)
    \/ \E k \in TaskKeys : \E outcome \in FetchOutcomes : FetchAnswer(k, outcome)
    \/ GatherReturn

SpecScrape == ScrapeInit /\ [][ScrapeNext]_vars

BatchifyInit == BInit /\ SIdle /\ RIdle /\ AIdle /\ TIdle /\ GIdle

BatchifyNext ==
    \/ BatchifyGroup
    \/ BatchifyRound
    \/ BatchifyTake
    \/ BatchifyForEnd
    \/ BatchifyEndRound
    \/ BatchifyAgain

SpecBatchify == BatchifyInit /\ [][BatchifyNext]_vars

RunInit == RIdle /\ BIdle /\ SIdle /\ AIdle /\ TIdle /\ GIdle

RunNext ==
    \/ \E impl \in Implementations : \E method \in Methods :
         \E start \in Starts : \E end \in start..(start + MaxDays) :
            RunWindows(impl, method, start, end)
    \/ RunNoRange
    \/ RunScrape
    \/ \E ok \in BOOLEAN : RunLegacyFetch(ok)
    \/ \E store \in StoreOutcomes : RunUpload(store)

SpecRun == RunInit /\ [][RunNext]_vars

ArticlesInit == AIdle /\ BIdle /\ SIdle /\ RIdle /\ TIdle /\ GIdle

ArticlesNext ==
    \/ ArticleNew
    \/ \E i \in 1..MaxItems : \E ok \in BOOLEAN : ArticleDownload(i, ok)
    \/ \E i \in 1..MaxItems : \E out \in ParseOutcomes : ArticleParse(i, out)
    \/ \E i \in 1..MaxItems : \E out \in NlpOutcomes : ArticleNlp(i, out)
    \/ \E cuts \in SUBSET (1..(MaxItems - 1)) : \E trailing \in BOOLEAN :
         \E save_path \in BOOLEAN : \E s3_path \in BOOLEAN : \E s3_name \in BOOLEAN :
            ScraperStart(cuts, trailing, save_path, s3_path, s3_name)
    \/ \E ok \in BOOLEAN : BatchDownload(ok)
    \/ \E out \in ParseOutcomes : BatchParse(out)
    \/ \E out \in NlpOutcomes : BatchNlp(out)
    \/ BatchGather
    \/ BatchCollect
    \/ BatchSleep
    \/ ScraperTable
    \/ \E ok \in BOOLEAN : ScraperSave(ok)
    \/ \E head \in ClientOutcomes : \E put \in ClientOutcomes : ScraperUpload(head, put)

SpecArticles == ArticlesInit /\ [][ArticlesNext]_vars

S3Init == TIdle /\ BIdle /\ SIdle /\ RIdle /\ AIdle /\ GIdle

S3Next ==
    \/ \E out \in ClientOutcomes : S3New(out)
    \/ \E out \in ClientOutcomes : S3BucketExists(out)
    \/ \E out \in ClientOutcomes : S3ObjectList(out)
    \/ \E df \in Frames : \E out \in ClientOutcomes : S3UploadDataframe(df, out)
    \/ \E out \in ClientOutcomes : S3GetDataframe(out)
    \/ \E out \in ClientOutcomes : S3Delete(out)
    \/ \E out \in ClientOutcomes : S3ListCsvFiles(out)

SpecS3 == S3Init /\ [][S3Next]_vars

GoogleInit == GIdle /\ BIdle /\ SIdle /\ RIdle /\ AIdle /\ TIdle

GoogleNext ==
    \/ \E queries \in SeqsUpTo(QueryPool, MaxQueries) : \E pages \in 0..MaxPages :
         GoogleCall(queries, pages)
    \/ \E response \in Responses : GoogleSearch(response)
    \/ GoogleReturn

SpecGoogle == GoogleInit /\ [][GoogleNext]_vars

(***************************************************************************)
(* Properties of AsyncLinkScraper.scrape                                   *)
(***************************************************************************)
\* The size of the admission gate section 5 of the specification describes
\* ("max_concurrent_scrapes", a small integer).  No such gate exists in the
\* source; the value only states the property below.
max_concurrent_scrapes == 1

\* C6 (as claimed): at every moment of a scrape the number of fetches in
\* flight is at most the size of an admission gate, whatever num_pages is.
C6_InFlightWithinGate ==
    InFlight(tasks) <= max_concurrent_scrapes

\* C6 (amended): at every moment of a scrape the number of fetches in flight
\* is at most the number of page coroutines raw_data created for the window
\* being scraped, i.e. the num_pages read when that window began.
C6_InFlightWithinWindowPages ==
    InFlight(tasks) <= n_tasks

\* every page of the window has its fetch in flight at once
C6_Witness ==
    /\ spc = "gather"
    /\ n_tasks >= 2
    /\ InFlight(tasks) = n_tasks

\* C7: scrape returns exactly one row per window of its input list; a
\* window without a successful page fetch still has its row (with empty
\* links) and no window is dropped.
C7_OneRowPerWindow ==
    spc = "done" => Len(rows) = Len(date_range)

\* C8: the rows of one scrape call are in the order of the window list: of
\* two windows i < j that both have a row, the row of i comes first,
\* whatever order the page fetches complete in.
C8_RowsInWindowOrder ==
    \A i, j \in 1..Len(rows) : i < j => rows[i].window < rows[j].window

C8_Witness ==
    /\ spc = "done"
    /\ Len(rows) >= 2
    /\ rows[1].links # <<>>

\* C9: _fetch_and_parse never raises to its caller, for every transport
\* outcome and every parser behaviour, and it returns an empty list when
\* the transport fails.
C9_FetchAndParseNeverRaises ==
    \A k \in DOMAIN tasks :
        tasks[k].state = "done" =>
            /\ tasks[k].result.kind # "raise"
            /\ tasks[k].outcome \in FailureTags => tasks[k].result = PyList(<<>>)

\* one coroutine met a transport error, another a parser that raised
C9_Witness ==
    /\ \E k \in DOMAIN tasks :
           tasks[k].state = "done" /\ tasks[k].outcome = "TransportError"
    /\ \E k \in DOMAIN tasks :
           /\ tasks[k].state = "done"
           /\ tasks[k].outcome = "Ok"
           /\ tasks[k].result.kind = "None"

\* C10 (as claimed): a failed fetch is never turned into an empty successful
\* result: the row of a window whose fetches failed differs from the row of
\* a window whose fetches succeeded and found no links.
C10_FailureDistinguishable ==
    \A i, j \in 1..Len(rows) :
        (rows[i].fetches = "all_failed" /\ rows[j].fetches = "all_ok") =>
            rows[i].links # rows[j].links

\* C10 (amended): a failed fetch is logged and turned into an empty page
\* result: when every fetch of a window has failed, scrape appends for that
\* window a row whose links list is empty, the same row a window of empty
\* pages gets.
C10_FailedWindowYieldsEmptyRow ==
    [][(spc = "gather" /\ FetchSummary(tasks, win) = "all_failed"
            /\ (win' # win \/ spc' = "done"))
        => (/\ Len(rows') = Len(rows) + 1
            /\ rows'[Len(rows')].window = win
            /\ rows'[Len(rows')].links = <<>>)]_vars

C10_Witness ==
    \E i \in 1..Len(rows) :
        rows[i].fetches = "all_failed" /\ rows[i].links = <<>>

\* C23: when the fetch succeeds but the content parser raises,
\* _fetch_and_parse returns an empty sequence, not an absent value: every
\* coroutine whose fetch succeeded finishes with a list.
C23_ParserErrorGivesEmptyList ==
    \A k \in DOMAIN tasks :
        (tasks[k].state = "done" /\ tasks[k].outcome = "Ok") =>
            tasks[k].result.kind = "list"

\* the links of the pages 1..n of window w, page after page
RECURSIVE PageLinks(_, _, _)
PageLinks(ts, w, n) ==
    IF n = 0 THEN <<>>
    ELSE PageLinks(ts, w, n - 1) \o ts[<<w, n>>].result.links

\* C26: the links list of a window row is the concatenation of the per-page
\* results in page-index order 1..num_pages, each in its in-page order,
\* whatever order the page fetches completed in; a link that occurs on
\* several pages is kept each time.
C26_LinksInPageOrder ==
    [][(spc = "gather" /\ Len(rows') = Len(rows) + 1) =>
          /\ rows'[Len(rows')].links = PageLinks(tasks, win, n_tasks)
          /\ Len(rows'[Len(rows')].links) =
                 2 * Cardinality({k \in WindowKeys(tasks, win) :
                                     tasks[k].result.links # <<>>})]_vars

\* a window whose second page finished before its first has its row, with
\* the link both pages share kept twice
C26_Witness ==
    \E i \in 1..Len(rows) :
        /\ rows[i].window \in overtaken
        /\ Len(rows[i].links) = 4
        /\ rows[i].links[2] = rows[i].links[4]

\* C27: the number of pages fetched per window is the same for every window
\* of one scrape call, even when num_pages is assigned on the same scraper
\* object while that scrape is suspended at a fetch.
C27_SamePagesEveryWindow ==
    [][(spc = "gather" /\ spc' = "gather" /\ win' = win + 1) =>
          n_tasks' = n_tasks]_vars

(***************************************************************************)
(* Properties of run / LinkScraper.__call__                                *)
(***************************************************************************)
\* C11 (as claimed): a call with a method other than 'daily' or 'weekly'
\* fails with a configuration error delivered to the caller, before any
\* fetch or upload is issued.
C11_UnsupportedMethodRaises ==
    (r_pc = "returned" /\ r_method \notin {"daily", "weekly"}) =>
        /\ r_result = "raised"
        /\ r_fetches = 0
        /\ r_uploads = 0

\* C11 (amended): a call with a method other than 'daily' or 'weekly' logs
\* the configuration error and returns None to its caller without raising,
\* and no fetch and no upload is ever issued by that call.
C11_UnsupportedMethodReturnsNone ==
    (r_pc # "idle" /\ r_method \notin {"daily", "weekly"}) =>
        /\ r_fetches = 0
        /\ r_uploads = 0
        /\ r_result \in {"pending", "None"}
        /\ r_pc = "returned" => r_result = "None"

C11_Witness ==
    /\ r_pc = "returned"
    /\ r_method = "monthly"
    /\ r_end - r_start >= 7
    /\ r_impl = "legacy"

\* C12: for start <= end the window list is: 'daily', exactly
\* (end - start).days windows, the x-th being the single day start + x, in
\* ascending order, end excluded; 'weekly', exactly (end - start).days // 7
\* windows, the i-th from start + 7i to start + 7(i + 1), so a trailing
\* partial week gets no window.
C12_WindowsMatchReference ==
    (r_pc # "idle" /\ r_start <= r_end) =>
        LET n == Len(r_date_range)
            days == r_end - r_start
        IN  /\ r_method = "daily" =>
                /\ n = days
                /\ \A x \in 1..n :
                       /\ r_date_range[x][1] = r_start + (x - 1)
                       /\ r_date_range[x][2] = r_date_range[x][1]
                       /\ r_date_range[x][1] < r_end
            /\ r_method = "weekly" =>
                /\ 7 * n <= days
                /\ days < 7 * (n + 1)
                /\ \A i \in 1..n :
                       /\ r_date_range[i][1] = r_start + 7 * (i - 1)
                       /\ r_date_range[i][2] = r_date_range[i][1] + 7
                       /\ r_date_range[i][2] <= r_end

\* a weekly call whose range ends in a partial week
C12_Witness ==
    /\ r_pc = "check"
    /\ r_method = "weekly"
    /\ r_end - r_start = 15
    /\ Len(r_date_range) = 2

(***************************************************************************)
(* Properties of NewsArticle, _scrape_batch and article_scraper            *)
(***************************************************************************)
\* the articles of the batches that _scrape_batch has finished
Scraped ==
    IF a_pc \in {"idle"} THEN {}
    ELSE LET done == IF a_pc \in Stages \cup {"collect"} THEN a_b - 1
                     ELSE IF a_pc = "sleep" THEN a_b
                     ELSE Len(a_batches)
         IN  UNION {Range(a_batches[b]) : b \in 1..done}

AllStages(a) == a.downloaded /\ a.parsed /\ a.nlp_applied

NonEmpty(record) == record.keys # {}

\* the urls of the input articles, by batch and then by item in the batch
InputOrder == Flatten(a_batches)

\* C13: item state never regresses: once an article's downloaded, parsed or
\* nlp_applied flag is true it stays true through every later download,
\* parse, nlp and _scrape_batch step, whatever the outcome of that step.
C13_FlagsNeverRegress ==
    [][\A i \in 1..Len(a_arts) :
          /\ a_arts[i].downloaded => a_arts'[i].downloaded
          /\ a_arts[i].parsed => a_arts'[i].parsed
          /\ a_arts[i].nlp_applied => a_arts'[i].nlp_applied]_vars

\* a download fails on an article that is already downloaded and parsed
C13_Witness ==
    /\ a_call.stage = "download"
    /\ ~a_call.ret
    /\ a_arts[a_call.i].downloaded
    /\ a_arts[a_call.i].parsed

\* C14: a failing stage leaves the article's flags and content fields as
\* they were and reports False instead of raising, so _scrape_batch goes on:
\* every article of a finished batch has been taken through all three
\* stages whatever happened to the other articles of the batch.
C14_FailingStageIsContained ==
    /\ (a_call.stage # "none" /\ ~a_call.ret) => a_call.same
    /\ \A i \in Scraped : a_tried[i] = Stages

\* a batch of two is finished, the first article failed its download inside
\* the batch and the second went through all three stages
C14_Witness ==
    /\ a_pc = "table"
    /\ Len(a_batches) >= 1
    /\ Len(a_batches[1]) = 2
    /\ LET i == a_batches[1][1]
           j == a_batches[1][2]
       IN  /\ ~a_arts[i].downloaded
           /\ a_tried[i] = Stages
           /\ AllStages(a_arts[j])
           /\ a_tried[j] = Stages

\* C15: after download, parse and nlp have all succeeded on an article,
\* metadata() is a non-empty record with the keys url, query, title, text,
\* authors, publish_date and summary, whatever content parse extracted.
C15_MetadataAfterAllStages ==
    \A i \in 1..Len(a_arts) :
        AllStages(a_arts[i]) => metadata(a_arts[i]).keys = MetadataKeys

\* C16: the table returned by article_scraper holds exactly the non-empty
\* metadata records of the input articles, by batch and then by item, and
\* an article whose metadata is the empty record has no row in it.
C16_TableIsNonEmptyMetadata ==
    a_pc \in {"save", "s3", "returned"} =>
        a_table.rows =
            SelectSeq([k \in 1..Len(InputOrder) |-> metadata(a_arts[InputOrder[k]])],
                      NonEmpty)

\* C17: article_scraper returns the table whatever the outcome of
\* persistence: no failure to open, reach or write the blob store leaves
\* article_scraper as an exception.
C17_PersistenceFailureNotRaised ==
    (a_pc = "returned" /\ a_s3_path /\ a_s3_name /\ a_fault # "save") =>
        /\ a_result = "table"
        /\ a_fault = "none"

\* C24: within _scrape_batch the stages are separated by barriers: no
\* article of the batch starts parse before every article of the batch has
\* finished its download attempt, and none starts nlp before every article
\* of the batch has finished its parse attempt.
C24_StagesSeparatedByBarriers ==
    \A b \in 1..Len(a_batches) :
        \A i, j \in Range(a_batches[b]) :
            /\ "parse" \in a_tried[i] => "download" \in a_tried[j]
            /\ "nlp" \in a_tried[i] => "parse" \in a_tried[j]

\* in a batch of two the first article has been through parse, the second
\* not yet, and both have been through download
C24_Witness ==
    /\ a_pc = "parse"
    /\ Len(a_batches[a_b]) = 2
    /\ "parse" \in a_tried[a_batches[a_b][1]]
    /\ a_tried[a_batches[a_b][2]] = {"download"}

\* C25: article_scraper takes the batches strictly one after another in
\* batch order with the delay between them: no stage of any item of batch
\* b + 1 starts before every item of batch b has finished all three stages
\* and the delay has then been waited.
C25_BatchesOneAfterAnother ==
    \A b \in 1..(Len(a_batches) - 1) :
        \A j \in Range(a_batches[b + 1]) :
            a_tried[j] # {} =>
                /\ \A i \in Range(a_batches[b]) : a_tried[i] = Stages
                /\ a_slept >= b
                /\ a_b >= b + 1

\* the second of two batches is in its download stage
C25_Witness ==
    /\ a_pc = "download"
    /\ a_b = 2
    /\ Len(a_batches) = 2
    /\ a_batches[1] # <<>>
    /\ a_i = 2
    /\ a_slept = 1

(***************************************************************************)
(* Properties of S3Bucket                                                  *)
(***************************************************************************)
\* C18: every blob-store operation is best-effort: whatever failure the
\* client reports, the operation returns False or an empty result, and no
\* exception ever leaves an operation.
C18_OperationsBestEffort ==
    /\ t_op.ret # "raised"
    /\ (t_op.name # "__init__" /\ t_op.out # "ok") => t_op.ret \in {"False", "empty"}

\* C19: upload_dataframe(table, key) followed by get_dataframe(key) returns
\* a table equal to the one written, row for row and cell for cell, list
\* cells included.
C19_RoundTrip ==
    (t_op.name = "get_dataframe" /\ t_op.out = "ok") =>
        /\ t_op.ret = "table"
        /\ t_got = t_df

(***************************************************************************)
(* Properties of GoogleNewsLinkScraper                                     *)
(***************************************************************************)
\* C20: for every list of queries and every page count, each article
\* returned refers to the query whose search produced it and has a
\* publish_date that is one of that query's dates.
C20_ArticleDateWithinItsQuery ==
    g_pc = "returned" =>
        \A k \in 1..Len(g_articles) :
            /\ g_articles[k].query = g_queries[g_articles[k].where[1]]
            /\ g_articles[k].publish_date \in Range(Dates(g_articles[k].query))

\* the day whose search page yielded the article
DiscoveredOn(article) == Dates(g_queries[article.where[1]])[article.where[2]]

\* C29: harvesting further pages, days or queries leaves the discovery date
\* of the articles found before unchanged: every article returned by
\* _get_news_articles carries as publish_date the day whose search page
\* yielded it.
C29_PublishDateIsDiscoveryDay ==
    g_pc = "returned" =>
        \A k \in 1..Len(g_articles) :
            g_articles[k].publish_date = DiscoveredOn(g_articles[k])

\* no query from index q + 1 to index r - 1 has a day to search
NoDayBetween(q, r) ==
    \A m \in (q + 1)..(r - 1) : Len(Dates(g_queries[m])) = 0

\* C30: for every query and every day of its range the search pages are
\* fetched in order from page 1; the pages that remain of a day are skipped
\* only when, after a page, the whole call has found no article so far, and
\* then the search goes on with page 1 of the next day to search.
C30_PagesInOrderSkipOneDay ==
    [][(g_pc = "search" /\ g_at[1] # 0 /\ g_at' # g_at) =>
         LET q == g_at[1]
             d == g_at[2]
             page == g_at[3]
             last == Len(g_queries) + 1
             r == IF g_at'[1] = 0 THEN last ELSE g_at'[1]
         IN  \/ /\ page < g_pages
                /\ g_at' = <<q, d, page + 1>>
             \/ /\ page = g_pages \/ Len(g_articles') = 0
                /\ \/ d < Len(Dates(g_queries[q])) /\ g_at' = <<q, d + 1, 1>>
                   \/ /\ d = Len(Dates(g_queries[q]))
                      /\ g_at'[2] = 1 /\ g_at'[3] = 1
                      /\ r > q
                      /\ NoDayBetween(q, r)
                      /\ r # last => Len(Dates(g_queries[r])) > 0]_vars

\* the first day of a query was left after an empty first page, and the
\* second day, whose first page yielded an article, is at its second page
C30_Witness ==
    /\ g_pc = "search"
    /\ g_pages = 2
    /\ g_at[2] = 2 /\ g_at[3] = 2
    /\ Len(g_articles) = 1
    /\ g_articles[1].where = <<g_at[1], 2, 1>>

(***************************************************************************)
(* Properties of _batchify                                                 *)
(***************************************************************************)
NoSameDomain(b) ==
    \A i, j \in 1..Len(b) : i # j => b[i].domain # b[j].domain

IsPermutation(s, t) ==
    /\ Len(s) = Len(t)
    /\ \A i \in 1..Len(t) : Cardinality({j \in 1..Len(s) : s[j] = t[i]}) = 1

DomainsOf(arts) == {arts[i].domain : i \in 1..Len(arts)}

CountOf(arts, d) == Cardinality({i \in 1..Len(arts) : arts[i].domain = d})

\* every domain that occurs in arts occurs exactly k times
Uniform(arts, k) == \A d \in DomainsOf(arts) : CountOf(arts, d) = k

ScenarioAABCC ==
    [i \in 1..5 |-> NewsArticle(i, <<"a", "a", "b", "c", "c">>[i])]

\* C1: no batch returned by _batchify holds two articles of the same
\* domain, for every input list and every max_batch (fixed or dynamic).
C1_DistinctDomainsPerBatch ==
    bpc = "done" =>
        \A k \in 1..Len(batches) : NoSameDomain(batches[k])

\* C2: for every non-empty input list and every max_batch, the batches
\* returned by _batchify, concatenated, are a permutation of the input:
\* every article is in exactly one batch, exactly once.
C2_FlattenedIsPermutation ==
    (bpc = "done" /\ articles # <<>>) =>
        IsPermutation(Flatten(batches), articles)

\* a fixed-mode run that returned several batches and reordered the input
C2_Witness ==
    /\ bpc = "done"
    /\ ~dynamic
    /\ Len(articles) >= 3
    /\ Len(batches) >= 2
    /\ Flatten(batches) # articles

\* C3: _batchify on an empty list returns zero batches, in fixed and in
\* dynamic mode.
C3_EmptyInputZeroBatches ==
    (bpc = "done" /\ articles = <<>>) => batches = <<>>

\* C4: in dynamic mode an input with d >= 1 domains and exactly k >= 1
\* articles per domain returns exactly k batches, each of exactly d articles.
C4_DynamicUniformKBatchesOfD ==
    \A k \in 1..MaxArticles :
        (bpc = "done" /\ dynamic /\ articles # <<>> /\ Uniform(articles, k)) =>
            /\ Len(batches) = k
            /\ \A n \in 1..Len(batches) :
                   Len(batches[n]) = Cardinality(DomainsOf(articles))

BothModesDone ==
    /\ bpc = "done"
    /\ first.called
    /\ 1 <= first.max_batch
    /\ first.max_batch < Cardinality(DomainsOf(articles))

\* C21: in fixed mode with max_batch = m >= 1, every batch returned by
\* _batchify has at most m items, for every input.
C21_FixedBatchesWithinMax ==
    (bpc = "done" /\ ~dynamic /\ max_batch >= 1) =>
        \A k \in 1..Len(batches) : Len(batches[k]) <= max_batch

\* a fixed-mode call with more domains than max_batch that returned a full
\* batch and a shorter last one
C21_Witness ==
    /\ bpc = "done"
    /\ ~dynamic
    /\ max_batch = 2
    /\ Cardinality(DomainsOf(articles)) = 3
    /\ Len(batches) >= 2
    /\ Len(batches[1]) = 2
    /\ Len(batches[Len(batches)]) = 1

\* C22 (as claimed): for every input with d distinct domains and every
\* fixed max_batch = m with 1 <= m < d, fixed-mode _batchify returns
\* strictly more batches than dynamic-mode _batchify on the same input.
C22_FixedReturnsMoreBatches ==
    BothModesDone => Len(first.batches) > Len(batches)

\* C22 (amended): for every input with d distinct domains and every fixed
\* max_batch = m with 1 <= m < d, fixed-mode _batchify goes through at least
\* as many rounds as dynamic-mode _batchify on the same input (not always
\* more), and returns at most one batch per round plus the final one.
C22_FixedTakesNoFewerRounds ==
    BothModesDone =>
        /\ first.rounds >= Len(round_log)
        /\ Len(first.batches) <= first.rounds + 1

\* a, a, b, c with max_batch = 2: both modes take two rounds and return
\* three batches
C22_Witness ==
    /\ BothModesDone
    /\ first.max_batch = 2
    /\ first.rounds = 2
    /\ Len(round_log) = 2
    /\ Len(first.batches) = Len(batches)

\* C28: in fixed mode with more live domains than max_batch, a live domain
\* that did not contribute an item to one round contributes an item to the
\* next round: no live domain is passed over in two consecutive rounds.
C28_PassedOverServedNextRound ==
    (bpc = "done" /\ ~dynamic /\ max_batch >= 1) =>
        \A r \in 1..(Len(round_log) - 1) :
            Cardinality(round_log[r].live) > max_batch =>
                \A d \in round_log[r].live \ round_log[r].took :
                    d \in round_log[r + 1].took

====
